---- MODULE Spec2Model ----
(***************************************************************************)
(* BOS deserializer and validator (src/src/bos_deserializer.c).            *)
(*                                                                         *)
(* Data model: LP64.  uint32_t / unsigned int are 4 bytes, size_t /        *)
(* uint64_t / pointers are 8 bytes.  Every C integer is kept as the        *)
(* little-endian sequence of its bytes, so that 32-bit wrap-around and     *)
(* 64-to-32-bit narrowing are what the machine computes.                   *)
(*                                                                         *)
(* A run: the caller hands one buffer to bos_validate, and afterwards the  *)
(* same buffer to bos_deserialize.  Both recursive walks are unfolded      *)
(* into one step per validate_value / read_value call and one step per     *)
(* loop iteration of the array / object functions, with the C call stack   *)
(* kept as an explicit stack of loop frames.                               *)
(***************************************************************************)
EXTENDS Integers, Sequences, FiniteSets, TLC

VARIABLES
    data,        \* the bytes the caller's pointer addresses (<<>> when NULL)
    dataIsNull,  \* data == NULL
    size,        \* the size argument of bos_validate
    vpc,         \* validator: "idle", "value", "loop", "done", "crashed"
    vbuf,        \* validator: buffer_t {pos, read, size}
    vstack,      \* validator: loop frames of validate_array / validate_obj
    vres,        \* validator: return value of bos_validate
    vcalls,      \* validator: number of validate_value calls made
    vtag,        \* validator: tag byte of the last validate_value call
    vlog,        \* validator: checks and cursor moves of the last step
    dpc,         \* decoder: "idle", "value", "loop", "done", "crashed"
    dbuf,        \* decoder: buffer_t {pos, read, size}
    dstack,      \* decoder: loop frames of read_array / read_obj
    dres,        \* decoder: "none", "value" or "NULL" (bos_deserialize result)
    derr,        \* decoder: error_set was called
    dcalls,      \* decoder: number of read_value calls made
    dtag,        \* decoder: tag byte of the last read_value call
    dtagpos,     \* decoder: offset that tag byte was read from
    dval,        \* decoder: kind of the value the last step produced
    dblock,      \* decoder: block allocated in the last step, bytes written
    dlog         \* decoder: read_buffer calls of the last step

vars == <<data, dataIsNull, size, vpc, vbuf, vstack, vres, vcalls, vtag, vlog,
          dpc, dbuf, dstack, dres, derr, dcalls, dtag, dtagpos, dval, dblock, dlog>>

vvars == <<vpc, vbuf, vstack, vres, vcalls, vtag, vlog>>
dvars == <<dpc, dbuf, dstack, dres, derr, dcalls, dtag, dtagpos, dval, dblock, dlog>>
input == <<data, dataIsNull, size>>

(***************************************************************************)
(* Bounds of the model.                                                    *)
(***************************************************************************)
\* a buffer is its header followed by at most MaxTokens byte groups
MaxTokens == 3
\* the decoder is followed for at most MaxCalls read_value calls
MaxCalls == 2

(***************************************************************************)
(* Fixed-width unsigned integers as little-endian byte sequences.          *)
(***************************************************************************)
Digit(x, i) == IF i <= Len(x) THEN x[i] ELSE 0

\* x + y from byte i on with carry c, in w bytes
RECURSIVE AddFrom(_, _, _, _, _)
AddFrom(x, y, i, w, c) ==
    IF i > w THEN <<>>
    ELSE LET s == Digit(x, i) + Digit(y, i) + c
         IN <<s % 256>> \o AddFrom(x, y, i + 1, w, s \div 256)

\* x + y in w bytes: the sum modulo 2^(8w)
AddW(x, y, w) == AddFrom(x, y, 1, w, 0)

\* conversion to a w-byte unsigned type: narrowing drops the high bytes,
\* widening zero-extends
Conv(x, w) == [i \in 1..w |-> Digit(x, i)]

\* comparison of the values, whatever the widths, from byte i down
RECURSIVE LtFrom(_, _, _)
LtFrom(x, y, i) ==
    IF i = 0 THEN FALSE
    ELSE IF Digit(x, i) # Digit(y, i) THEN Digit(x, i) < Digit(y, i)
    ELSE LtFrom(x, y, i - 1)

Lt(x, y) == LtFrom(x, y, 9)
Le(x, y) == ~Lt(y, x)

U32(k) == <<k % 256, (k \div 256) % 256, (k \div 65536) % 256, (k \div 16777216) % 256>>
U64(k) == U32(k) \o <<0, 0, 0, 0>>

\* the value as a TLA+ integer, for values below 2^24
IsSmall(x) == \A i \in 4..Len(x) : x[i] = 0
Small(x) == Digit(x, 1) + 256 * Digit(x, 2) + 65536 * Digit(x, 3)

(***************************************************************************)
(* Memory.  Offsets are relative to the data pointer.  A byte outside the  *)
(* caller's buffer has no defined value: the step that reads it sees the   *)
(* byte g, which the step draws from Garbage, or the process dies.         *)
(***************************************************************************)
Garbage == {0, 255}

InData(off) == IsSmall(off) /\ Small(off) < Len(data)

MemByte(pos, j, g) ==
    IF IsSmall(pos) /\ Small(pos) + j < Len(data) THEN data[Small(pos) + j + 1] ELSE g

\* the k bytes memcpy copies out of the buffer from pos, k a small integer
Fetch(pos, k, g) == [j \in 1..k |-> MemByte(pos, j - 1, g)]

\* a read of n bytes at pos leaves the caller's buffer
OutOfData(pos, n) == n # U64(0) /\ Lt(U32(Len(data)), AddW(pos, n, 9))

(***************************************************************************)
(* buffer_t and read_buffer.  A walk carries the cursor, the log of the    *)
(* step's bounds checks and cursor moves, and the block the step allocated.*)
(***************************************************************************)
NoBlock == [live |-> FALSE, size |-> U64(0), written |-> U64(0)]

Walk(buf) == [buf |-> buf, log |-> <<>>, block |-> NoBlock]

Event(op, m, n, ok, consumed) ==
    [op |-> op, pos |-> m.buf.pos, n |-> n, ok |-> ok, consumed |-> consumed]

\* read_buffer(buffer, destination, size): memcpy of size bytes from pos, then
\* pos and read advance by (uint32_t)size
read_buffer(m, sz) ==
    LET amount == Conv(sz, 4)
        rd == AddW(m.buf.read, amount, 4)
    IN [m EXCEPT !.buf.pos = AddW(@, amount, 8),
                 !.buf.read = rd,
                 !.log = Append(@, Event("read", m, sz, TRUE, rd))]

\* buffer_init: pos = data, read = 0, then the header is read into size
buffer_init(g) ==
    LET b0 == [pos |-> U64(0), read |-> U32(0), size |-> U32(0)]
        m == read_buffer(Walk(b0), U64(4))
    IN [m EXCEPT !.buf.size = Fetch(b0.pos, 4, g)]

(***************************************************************************)
(* bos_data_type: the tag bytes, in the wire order of the format.          *)
(***************************************************************************)
BOS_NULL == 0
BOS_DOUBLE == 11
BOS_STRING == 12
BOS_BYTES == 13
BOS_ARRAY == 14
BOS_OBJ == 15

(***************************************************************************)
(* Validation.                                                             *)
(***************************************************************************)
\* seeded fault: the comparison forgets the amount about to be read
FitsBufferNoAmount(buf, amount) == Le(buf.read, buf.size)

\* the comparison of validate_read and validate_read_only: the argument is
\* converted to the parameter type unsigned int, the sum is a uint32_t sum
FitsBuffer(buf, amount) == Le(AddW(buf.read, Conv(amount, 4), 4), buf.size)

validate_read_only(m, amount) ==
    LET ok == FitsBuffer(m.buf, amount)
    IN [ok |-> ok,
        m |-> [m EXCEPT !.log = Append(@, Event("check", m, amount, ok, m.buf.read))]]

validate_read(m, amount) ==
    LET ok == FitsBuffer(m.buf, amount)
        amt == Conv(amount, 4)
        rd == AddW(m.buf.read, amt, 4)
        checked == [m EXCEPT !.log = Append(@, Event("check", m, amount, ok, m.buf.read))]
    IN IF ok
       THEN [ok |-> TRUE,
             m |-> [checked EXCEPT !.buf.read = rd,
                                   !.buf.pos = AddW(@, amt, 8),
                                   !.log = Append(@, Event("advance", m, amount, TRUE, rd))]]
       ELSE [ok |-> FALSE, m |-> checked]

\* bytes that follow the flag byte of a varint
VarintWidth(type_flag) ==
    CASE type_flag = 255 -> 8
      [] type_flag = 254 -> 4
      [] type_flag = 253 -> 2
      [] OTHER -> 0

validate_uvarint(m, g) ==
    LET c1 == validate_read_only(m, U64(1))
    IN IF ~c1.ok THEN [ok |-> FALSE, m |-> c1.m, result |-> U64(0)]
       ELSE LET type_flag == Fetch(c1.m.buf.pos, 1, g)[1]
                m1 == read_buffer(c1.m, U64(1))
                w == VarintWidth(type_flag)
            IN IF w = 0 THEN [ok |-> TRUE, m |-> m1, result |-> U64(type_flag)]
               ELSE LET c2 == validate_read_only(m1, U64(w))
                    IN IF ~c2.ok THEN [ok |-> FALSE, m |-> c2.m, result |-> U64(0)]
                       ELSE [ok |-> TRUE,
                             m |-> read_buffer(c2.m, U64(w)),
                             result |-> Conv(Fetch(c2.m.buf.pos, w, g), 8)]

validate_string(m, g) ==
    LET v == validate_uvarint(m, g)
    IN IF ~v.ok THEN [ok |-> FALSE, m |-> v.m]
       ELSE IF Lt(U64(0), v.result) THEN validate_read(v.m, v.result)
       ELSE [ok |-> TRUE, m |-> v.m]

validate_bytes(m, g) ==
    LET v == validate_uvarint(m, g)
    IN IF ~v.ok THEN [ok |-> FALSE, m |-> v.m]
       ELSE IF Lt(U64(0), v.result) THEN validate_read(v.m, v.result)
       ELSE [ok |-> TRUE, m |-> v.m]

\* sizeof of the payload validate_value checks for the tags BOS_BOOL..BOS_DOUBLE
ValidateSize == <<1, 1, 2, 4, 8, 1, 2, 4, 8, 4, 8>>

\* validate_value up to its return or to the loop of a container.
\* ret: "TRUE", "FALSE", or "array" / "obj" with the count in len
validate_value(buf, g) ==
    LET c == validate_read_only(Walk(buf), U64(1))
        No(m, t) == [ret |-> "FALSE", m |-> m, len |-> U64(0), tag |-> t]
        Yes(m, t) == [ret |-> "TRUE", m |-> m, len |-> U64(0), tag |-> t]
        Of(r, t) == IF r.ok THEN Yes(r.m, t) ELSE No(r.m, t)
    IN IF ~c.ok THEN No(c.m, -1)
       ELSE LET data_type == Fetch(c.m.buf.pos, 1, g)[1]
                m1 == read_buffer(c.m, U64(1))
            IN CASE data_type = BOS_NULL -> Yes(m1, data_type)
                 [] data_type \in 1..BOS_DOUBLE ->
                        Of(validate_read(m1, U64(ValidateSize[data_type])), data_type)
                 [] data_type = BOS_STRING -> Of(validate_string(m1, g), data_type)
                 [] data_type = BOS_BYTES -> Of(validate_bytes(m1, g), data_type)
                 [] data_type \in {BOS_ARRAY, BOS_OBJ} ->
                        LET v == validate_uvarint(m1, g)
                        IN IF ~v.ok THEN No(v.m, data_type)
                           ELSE [ret |-> IF data_type = BOS_ARRAY THEN "array" ELSE "obj",
                                 m |-> v.m, len |-> v.result, tag |-> data_type]
                 [] OTHER -> No(m1, data_type)

\* seeded fault: the header is not compared with the size argument
EntryOkNoSizeCompare ==
    /\ ~dataIsNull
    /\ ~(size < 5)
    /\ ~Lt(Fetch(U64(0), 4, 0), U32(5))

\* the entry checks of bos_validate
EntryOk ==
    /\ ~dataIsNull
    /\ ~(size < 5)
    /\ LET data_size == Fetch(U64(0), 4, 0)
       IN ~(Lt(data_size, U32(5)) \/ Lt(U64(size), data_size))

\* some read of the step left the caller's buffer
ReadsOutside(log) ==
    \E k \in 1..Len(log) : log[k].op = "read" /\ OutOfData(log[k].pos, log[k].n)

\* a function of the walk returns TRUE to its caller
VReturnTrue(stack) ==
    IF stack = <<>> THEN vpc' = "done" /\ vres' = TRUE
    ELSE vpc' = "loop" /\ vres' = vres

VReturnFalse == vpc' = "done" /\ vres' = FALSE

VCrash ==
    /\ vpc' = "crashed"
    /\ UNCHANGED <<vbuf, vstack, vres, vtag>>

BosValidate ==
    /\ vpc = "idle"
    /\ IF ~EntryOk
       THEN /\ vpc' = "done"
            /\ vres' = FALSE
            /\ UNCHANGED <<vbuf, vlog>>
       ELSE LET m == buffer_init(0)
            IN /\ vbuf' = m.buf
               /\ vlog' = m.log
               /\ vpc' = "value"
               /\ vres' = vres
    /\ UNCHANGED <<vstack, vcalls, vtag, input, dvars>>

ValidateValue ==
    /\ vpc = "value"
    /\ vcalls' = vcalls + 1
    /\ \E g \in Garbage :
         \E r \in {validate_value(vbuf, g)}, dies \in BOOLEAN :
            /\ vlog' = r.m.log
            /\ dies => ReadsOutside(r.m.log)
            /\ IF dies THEN VCrash
               ELSE /\ vbuf' = r.m.buf
                    /\ vtag' = r.tag
                    /\ CASE r.ret = "FALSE" -> VReturnFalse /\ vstack' = vstack
                         [] r.ret = "TRUE" -> VReturnTrue(vstack) /\ vstack' = vstack
                         [] OTHER -> /\ vstack' = Append(vstack, [kind |-> r.ret, i |-> 0, len |-> r.len])
                                     /\ vpc' = "loop"
                                     /\ vres' = vres
    /\ UNCHANGED <<input, dvars>>

\* one pass through the for loop of validate_array
ValidateArray ==
    /\ vpc = "loop"
    /\ vstack # <<>>
    /\ LET top == vstack[Len(vstack)]
           rest == SubSeq(vstack, 1, Len(vstack) - 1)
       IN /\ top.kind = "array"
          /\ vlog' = <<>>
          /\ IF Lt(U64(top.i), top.len)
             THEN /\ vstack' = Append(rest, [top EXCEPT !.i = @ + 1])
                  /\ vpc' = "value"
                  /\ vres' = vres
             ELSE /\ vstack' = rest
                  /\ VReturnTrue(rest)
    /\ UNCHANGED <<vbuf, vcalls, vtag, input, dvars>>

\* one pass through the for loop of validate_obj: the key, then the value
ValidateObj ==
    /\ vpc = "loop"
    /\ vstack # <<>>
    /\ LET top == vstack[Len(vstack)]
           rest == SubSeq(vstack, 1, Len(vstack) - 1)
       IN /\ top.kind = "obj"
          /\ IF Lt(U64(top.i), top.len)
             THEN \E g \in Garbage :
                    \E k \in {validate_string(Walk(vbuf), g)}, dies \in BOOLEAN :
                       /\ vlog' = k.m.log
                       /\ dies => ReadsOutside(k.m.log)
                       /\ IF dies THEN VCrash
                          ELSE /\ vbuf' = k.m.buf
                               /\ vtag' = vtag
                               /\ IF k.ok
                                  THEN /\ vstack' = Append(rest, [top EXCEPT !.i = @ + 1])
                                       /\ vpc' = "value"
                                       /\ vres' = vres
                                  ELSE /\ vstack' = vstack
                                       /\ VReturnFalse
             ELSE /\ vstack' = rest
                  /\ vlog' = <<>>
                  /\ VReturnTrue(rest)
                  /\ UNCHANGED <<vbuf, vtag>>
    /\ UNCHANGED <<vcalls, input, dvars>>

(***************************************************************************)
(* Deserialization.  The value model (json_null, json_integer, json_string,*)
(* json_bytes, json_array, json_object and their mutators) is the jansson  *)
(* library: its factories return a value unless the allocator fails, and   *)
(* the allocator does not fail.                                            *)
(***************************************************************************)
\* seeded fault: the 0xFE case reads a 16-bit value
read_uvarint_fe16(m, g) ==
    LET type_flag == Fetch(m.buf.pos, 1, g)[1]
        m1 == read_buffer(m, U64(1))
    IN CASE type_flag = 255 ->
                [m |-> read_buffer(m1, U64(8)), val |-> Conv(Fetch(m1.buf.pos, 8, g), 8)]
         [] type_flag \in {253, 254} ->
                [m |-> read_buffer(m1, U64(2)), val |-> Conv(Fetch(m1.buf.pos, 2, g), 8)]
         [] OTHER -> [m |-> m1, val |-> U64(type_flag)]

read_uvarint(m, g) ==
    LET type_flag == Fetch(m.buf.pos, 1, g)[1]
        m1 == read_buffer(m, U64(1))
    IN CASE type_flag = 255 ->
                [m |-> read_buffer(m1, U64(8)), val |-> Conv(Fetch(m1.buf.pos, 8, g), 8)]
         [] type_flag = 254 ->
                [m |-> read_buffer(m1, U64(4)), val |-> Conv(Fetch(m1.buf.pos, 4, g), 8)]
         [] type_flag = 253 ->
                [m |-> read_buffer(m1, U64(2)), val |-> Conv(Fetch(m1.buf.pos, 2, g), 8)]
         [] OTHER -> [m |-> m1, val |-> U64(type_flag)]

\* index one past the last byte read_raw_string writes into its block of
\* len bytes: the len payload bytes, then the terminator at utf8String + len
StringWritten(len) == AddW(len, U64(1), 9)

read_raw_string(m, g) ==
    LET v == read_uvarint(m, g)
        len == v.val
    IN IF Lt(U64(0), len)
       THEN [read_buffer(v.m, len) EXCEPT
                !.block = [live |-> TRUE, size |-> len, written |-> StringWritten(len)]]
       ELSE v.m

read_bytes(m, g) ==
    LET v == read_uvarint(m, g)
        len == v.val
    IN [read_buffer(v.m, len) EXCEPT
            !.block = [live |-> TRUE, size |-> len, written |-> len]]

\* seeded fault: a tag byte above 15 is passed on to read_data
ClampTypeMissing(type) == type

\* the tag byte as read_data sees it
ClampType(type) == IF type > 15 THEN BOS_NULL ELSE type

read_data_type(m, g) ==
    LET type == Fetch(m.buf.pos, 1, g)[1]
    IN [m |-> read_buffer(m, U64(1)), type |-> ClampType(type), byte |-> type]

\* sizeof of the payload of the readers read_bool..read_real64
ReadSize == <<1, 1, 2, 4, 8, 1, 2, 4, 8, 4, 8>>
\* the factory each of them calls
ReadKind == <<"bool", "integer", "integer", "integer", "integer", "integer",
              "integer", "integer", "integer", "real", "real">>

\* a factory of the value model returns NULL: only when the allocator fails
JsonFactoryFails == FALSE

\* read_data up to its return or to the loop of a container.
\* ret: "value", "NULL", or "array" / "obj" with the count in len
read_data(m, data_type, g) ==
    LET Val(w, k) == [ret |-> IF JsonFactoryFails THEN "NULL" ELSE "value",
                      m |-> w, kind |-> k, len |-> U64(0), err |-> FALSE]
    IN CASE data_type = BOS_NULL -> Val(m, "null")
         [] data_type \in 1..BOS_DOUBLE ->
                Val(read_buffer(m, U64(ReadSize[data_type])), ReadKind[data_type])
         [] data_type = BOS_STRING -> Val(read_raw_string(m, g), "string")
         [] data_type = BOS_BYTES -> Val(read_bytes(m, g), "bytes")
         [] data_type \in {BOS_ARRAY, BOS_OBJ} ->
                LET v == read_uvarint(m, g)
                IN [ret |-> IF data_type = BOS_ARRAY THEN "array" ELSE "obj",
                    m |-> v.m, kind |-> "none", len |-> v.val, err |-> FALSE]
         [] OTHER -> [ret |-> "NULL", m |-> m, kind |-> "none", len |-> U64(0), err |-> TRUE]

read_value(buf, g) ==
    LET t == read_data_type(Walk(buf), g)
        r == read_data(t.m, t.type, g)
    IN [ret |-> r.ret, m |-> r.m, kind |-> r.kind, len |-> r.len, err |-> r.err,
        byte |-> t.byte]

\* the step wrote outside the block it allocated
WritesOutside(block) == block.live /\ Lt(block.size, block.written)

\* the step has undefined behaviour: it may kill the process
Undefined(m) == ReadsOutside(m.log) \/ WritesOutside(m.block)

\* a function of the decoder returns a value to its caller
DReturnValue(stack) ==
    IF stack = <<>> THEN dpc' = "done" /\ dres' = "value"
    ELSE dpc' = "loop" /\ dres' = dres

\* NULL goes up through every caller
DReturnNull == dpc' = "done" /\ dres' = "NULL"

DCrash ==
    /\ dpc' = "crashed"
    /\ UNCHANGED <<dbuf, dstack, dres, derr, dtag, dtagpos, dval>>

BosDeserialize ==
    /\ vpc = "done"
    /\ dpc = "idle"
    /\ IF dataIsNull
       THEN /\ DCrash
            /\ UNCHANGED <<dlog, dblock>>
       ELSE \E g \in Garbage :
              \E m \in {buffer_init(g)}, dies \in BOOLEAN :
                 /\ dlog' = m.log
                 /\ dblock' = m.block
                 /\ dies => Undefined(m)
                 /\ IF dies THEN DCrash
                    ELSE /\ dbuf' = m.buf
                         /\ IF Lt(m.buf.size, U32(5))
                            THEN DReturnNull /\ derr' = TRUE
                            ELSE dpc' = "value" /\ dres' = dres /\ derr' = FALSE
                         /\ UNCHANGED <<dstack, dtag, dtagpos, dval>>
    /\ UNCHANGED <<dcalls, input, vvars>>

ReadValue ==
    /\ dpc = "value"
    /\ dcalls < MaxCalls
    /\ dcalls' = dcalls + 1
    /\ \E g \in Garbage :
         \E r \in {read_value(dbuf, g)}, dies \in BOOLEAN :
            /\ dlog' = r.m.log
            /\ dblock' = r.m.block
            /\ dies => Undefined(r.m)
            /\ IF dies THEN DCrash
               ELSE /\ dbuf' = r.m.buf
                    /\ dtag' = r.byte
                    /\ dtagpos' = dbuf.pos
                    /\ dval' = r.kind
                    /\ derr' = (derr \/ r.err)
                    /\ CASE r.ret = "NULL" -> DReturnNull /\ dstack' = dstack
                         [] r.ret = "value" -> DReturnValue(dstack) /\ dstack' = dstack
                         [] OTHER -> /\ dstack' = Append(dstack, [kind |-> r.ret, i |-> 0, len |-> r.len])
                                     /\ dpc' = "loop"
                                     /\ dres' = dres
    /\ UNCHANGED <<input, vvars>>

\* one pass through the for loop of read_array
ReadArray ==
    /\ dpc = "loop"
    /\ dstack # <<>>
    /\ LET top == dstack[Len(dstack)]
           rest == SubSeq(dstack, 1, Len(dstack) - 1)
       IN /\ top.kind = "array"
          /\ dlog' = <<>>
          /\ dblock' = NoBlock
          /\ IF Lt(U64(top.i), top.len)
             THEN /\ dstack' = Append(rest, [top EXCEPT !.i = @ + 1])
                  /\ dpc' = "value"
                  /\ dres' = dres
                  /\ dval' = dval
             ELSE /\ dstack' = rest
                  /\ dval' = "array"
                  /\ DReturnValue(rest)
    /\ UNCHANGED <<dbuf, derr, dcalls, dtag, dtagpos, input, vvars>>

\* one pass through the for loop of read_obj: the key, then the value
ReadObj ==
    /\ dpc = "loop"
    /\ dstack # <<>>
    /\ LET top == dstack[Len(dstack)]
           rest == SubSeq(dstack, 1, Len(dstack) - 1)
       IN /\ top.kind = "obj"
          /\ IF Lt(U64(top.i), top.len)
             THEN \E g \in Garbage :
                    \E k \in {read_raw_string(Walk(dbuf), g)}, dies \in BOOLEAN :
                       /\ dlog' = k.log
                       /\ dblock' = k.block
                       /\ dies => Undefined(k)
                       /\ IF dies THEN DCrash
                          ELSE /\ dbuf' = k.buf
                               /\ dstack' = Append(rest, [top EXCEPT !.i = @ + 1])
                               /\ dpc' = "value"
                               /\ UNCHANGED <<dres, derr, dtag, dtagpos, dval>>
             ELSE /\ dstack' = rest
                  /\ dlog' = <<>>
                  /\ dblock' = NoBlock
                  /\ dval' = "object"
                  /\ DReturnValue(rest)
                  /\ UNCHANGED <<dbuf, derr, dtag, dtagpos>>
    /\ UNCHANGED <<dcalls, input, vvars>>

(***************************************************************************)
(* The buffers handed to the two entry points: a 4-byte header followed by *)
(* at most MaxTokens byte groups, each a tag, a count, a length or a       *)
(* payload byte, in any order.                                             *)
(***************************************************************************)
Tokens ==
    { <<0>>, <<1>>, <<12>>, <<13>>, <<14>>, <<15>>, <<16>>,
      <<254, 255, 255, 255, 255>>,
      <<255, 1, 0, 0, 0, 1, 0, 0, 0>> }

RECURSIVE Flatten(_)
Flatten(ts) == IF ts = <<>> THEN <<>> ELSE Head(ts) \o Flatten(Tail(ts))

Payloads == { Flatten(ts) : ts \in UNION { [1..k -> Tokens] : k \in 0..MaxTokens } }

\* declared sizes tried for a buffer of n bytes: too small to be valid, the
\* length of the buffer, more than the buffer holds
Declared(n) == {4, n, n + 1}

Buffers == UNION { { U32(h) \o p : h \in Declared(4 + Len(p)) } : p \in Payloads }

Init ==
    /\ \/ /\ dataIsNull = FALSE
          /\ data \in Buffers
          /\ size = Len(data)
       \/ /\ dataIsNull = TRUE
          /\ data = <<>>
          /\ size \in {0, 8}
    /\ vpc = "idle"
    /\ vbuf = [pos |-> U64(0), read |-> U32(0), size |-> U32(0)]
    /\ vstack = <<>>
    /\ vres = FALSE
    /\ vcalls = 0
    /\ vtag = -1
    /\ vlog = <<>>
    /\ dpc = "idle"
    /\ dbuf = [pos |-> U64(0), read |-> U32(0), size |-> U32(0)]
    /\ dstack = <<>>
    /\ dres = "none"
    /\ derr = FALSE
    /\ dcalls = 0
    /\ dtag = -1
    /\ dtagpos = U64(0)
    /\ dval = "none"
    /\ dblock = NoBlock
    /\ dlog = <<>>

Next ==
    \/ BosValidate
    \/ ValidateValue
    \/ ValidateArray
    \/ ValidateObj
    \/ BosDeserialize
    \/ ReadValue
    \/ ReadArray
    \/ ReadObj

Spec == Init /\ [][Next]_vars

(***************************************************************************)
(* Vocabulary of the properties.                                           *)
(***************************************************************************)
Walking == vpc \in {"value", "loop"}
Accepted == vpc = "done" /\ vres = TRUE
Rejected == vpc = "done" /\ vres = FALSE
Header == Conv(SubSeq(data, 1, 4), 4)
Events(log, op) == { k \in 1..Len(log) : log[k].op = op }

\* the wire format, in unbounded integers: the offset one past the value
\* that starts at offset p of data, or -1 when no well-formed value that
\* fits in data starts there
FormatWidth(t) == IF t <= 252 THEN 0 ELSE IF t = 253 THEN 2 ELSE IF t = 254 THEN 4 ELSE 8
FormatVarint(p) ==
    IF p >= Len(data) \/ p + 1 + FormatWidth(data[p + 1]) > Len(data)
    THEN [end |-> -1, val |-> U64(0)]
    ELSE [end |-> p + 1 + FormatWidth(data[p + 1]),
          val |-> IF data[p + 1] <= 252 THEN U64(data[p + 1])
                  ELSE Conv(SubSeq(data, p + 2, p + 1 + FormatWidth(data[p + 1])), 8)]
FormatFixed == <<1, 1, 2, 4, 8, 1, 2, 4, 8, 4, 8>>
FormatBlobEnd(p) ==
    LET v == FormatVarint(p)
    IN IF v.end >= 0 /\ IsSmall(v.val) /\ v.end + Small(v.val) <= Len(data)
       THEN v.end + Small(v.val) ELSE -1

RECURSIVE FormatValueEnd(_), FormatItemsEnd(_, _, _)
FormatValueEnd(p) ==
    IF p < 0 \/ p >= Len(data) THEN -1
    ELSE LET t == data[p + 1]
         IN CASE t = 0 -> p + 1
              [] t \in 1..11 -> IF p + 1 + FormatFixed[t] <= Len(data)
                                THEN p + 1 + FormatFixed[t] ELSE -1
              [] t \in {12, 13} -> FormatBlobEnd(p + 1)
              [] t \in {14, 15} ->
                    LET v == FormatVarint(p + 1)
                    IN IF v.end >= 0 /\ IsSmall(v.val) /\ Small(v.val) <= Len(data)
                       THEN FormatItemsEnd(v.end, Small(v.val), t = 15) ELSE -1
              [] OTHER -> -1
FormatItemsEnd(p, k, keyed) ==
    IF p < 0 THEN -1
    ELSE IF k = 0 THEN p
    ELSE FormatItemsEnd(FormatValueEnd(IF keyed THEN FormatBlobEnd(p) ELSE p), k - 1, keyed)

\* data is a valid encoded buffer: the header is its length and one
\* well-formed value fills the rest
ValidEncoding ==
    /\ ~dataIsNull
    /\ Len(data) >= 5
    /\ Header = U32(Len(data))
    /\ FormatValueEnd(4) = Len(data)

(***************************************************************************)
(* C1.  When bos_validate has accepted the buffer, every read_buffer call  *)
(* of bos_deserialize reads only offsets below the declared size.          *)
(***************************************************************************)
C1_AcceptedDecodeReadsInsideSize ==
    Accepted =>
        \A k \in Events(dlog, "read") :
            dlog[k].n # U64(0) => Le(AddW(dlog[k].pos, dlog[k].n, 9), vbuf.size)

(***************************************************************************)
(* C2.  No bounds check of the validator passes a read of n bytes when     *)
(* consumed + n, as unbounded integers, exceeds the declared size.         *)
(***************************************************************************)
C2_ChecksAreUnbounded ==
    \A k \in Events(vlog, "check") :
        Lt(vbuf.size, AddW(vlog[k].consumed, vlog[k].n, 9)) => ~vlog[k].ok

(***************************************************************************)
(* C3.  On a valid encoded buffer bos_validate returns true exactly when   *)
(* bos_deserialize returns a value without an error.                       *)
(***************************************************************************)
C3_ValidateIffDeserialize ==
    (ValidEncoding /\ dpc \in {"done", "crashed"}) =>
        (vres = TRUE <=> (dpc = "done" /\ dres = "value" /\ ~derr))

(***************************************************************************)
(* C4.  A tag byte above 15 where a value is expected: validate_value      *)
(* returns FALSE and with it bos_validate; read_value produces Null,       *)
(* moves the cursor one byte, allocates nothing and sets no error; and a   *)
(* buffer in which the decoder meets such a tag was rejected by            *)
(* bos_validate.                                                           *)
(***************************************************************************)
C4_BadTagAsymmetry ==
    [][ /\ (vcalls' = vcalls + 1 /\ vpc' # "crashed" /\ vtag' > 15)
              => (vpc' = "done" /\ vres' = FALSE)
        /\ (dcalls' = dcalls + 1 /\ dpc' # "crashed" /\ dtag' > 15)
              => /\ dval' = "null"
                 /\ dbuf'.read = AddW(dbuf.read, U32(1), 4)
                 /\ dbuf'.pos = AddW(dbuf.pos, U64(1), 8)
                 /\ dblock' = NoBlock
                 /\ ~derr'
                 /\ dres' # "NULL"
                 /\ InData(dbuf.pos) => Rejected
      ]_vars

C4_Witness ==
    /\ dstack # <<>>
    /\ dtag > 15
    /\ InData(dtagpos)
    /\ dval = "null"
    /\ dbuf.read = U32(Small(dtagpos) + 1)
    /\ vtag > 15
    /\ Rejected

(***************************************************************************)
(* C5.  bos_validate returns false without walking when data is NULL, or   *)
(* size < 5, or the header is below 5 or above size; the walk starts only  *)
(* when 5 <= header <= size.                                               *)
(***************************************************************************)
EntryRejects ==
    \/ dataIsNull
    \/ size < 5
    \/ Lt(Header, U32(5))
    \/ Lt(U64(size), Header)

C5_EntryChecks ==
    /\ (vpc # "idle" /\ EntryRejects)
          => /\ Rejected
             /\ vcalls = 0
             /\ vlog = <<>>
             /\ vbuf.read = U32(0)
    /\ (Walking \/ vcalls > 0) => ~EntryRejects

C5_Witness ==
    /\ ~dataIsNull
    /\ size >= 5
    /\ Lt(U64(size), Header)
    /\ Rejected
    /\ vcalls = 0

(***************************************************************************)
(* C6.  Wherever in the buffer validate_uvarint succeeds, read_uvarint     *)
(* started on the same cursor returns the same value and leaves the same   *)
(* cursor: 1 byte and the value t for a first byte t <= 0xFC, 3, 5 or 9    *)
(* bytes and the little-endian value of the next 2, 4 or 8 bytes for       *)
(* 0xFD, 0xFE, 0xFF.                                                       *)
(***************************************************************************)
CursorAt(p) == [vbuf EXCEPT !.pos = U64(p), !.read = U32(p)]

C7_ConsumedWithinSize ==
    /\ \A k \in Events(vlog, "read") \cup Events(vlog, "advance") :
          Le(vlog[k].consumed, vbuf.size)
    /\ Le(vbuf.read, vbuf.size)

\* a validate_read whose 32-bit sum wrapped around has just passed
C7_Witness ==
    /\ Accepted
    /\ \E k \in Events(vlog, "advance") :
          /\ Lt(vbuf.size, AddW(vlog[k - 1].consumed, vlog[k].n, 9))
          /\ Le(vlog[k].consumed, vbuf.size)

(***************************************************************************)
(* C8.  When bos_validate returns true, the top-level value fills the      *)
(* envelope: consumed equals the declared size at the end of the walk.     *)
(***************************************************************************)
C8_AcceptedFillsEnvelope == Accepted => vbuf.read = vbuf.size

(***************************************************************************)
(* C9.  Every byte read_raw_string or read_bytes writes into the block it  *)
(* allocated lies at an index below the size of the block.                 *)
(***************************************************************************)
C9_WritesInsideBlock == dblock.live => Le(dblock.written, dblock.size)

(***************************************************************************)
(* C10.  During the walk of bos_validate the consumed count never          *)
(* decreases, a step that goes on after a bounds check has consumed at     *)
(* least one byte, and at most size - 4 validate_value calls are made.     *)
(***************************************************************************)
C10_WalkMakesProgress ==
    /\ \A k \in Events(vlog, "advance") : Le(vlog[k - 1].consumed, vlog[k].consumed)
    /\ (Walking /\ vlog # <<>> /\ vlog[1].op = "check")
          => Lt(vlog[1].consumed, vbuf.read)
    /\ (vcalls > 0 /\ IsSmall(vbuf.size)) => vcalls <= Small(vbuf.size) - 4

====
